---- MODULE Spec2Model ----
(***************************************************************************)
(* Model of the two HTTP front ends of the repository and of the WASM      *)
(* execution core behind each of them:                                     *)
(*   - the legacy server, src/src/main.rs (handle_request, execute_wasm);  *)
(*   - the runner, src/wasm_runner/src/main.rs (router,                    *)
(*     handle_execute_wasm).                                               *)
(* One process runs one of the two programs (variable server).  Requests   *)
(* are served concurrently, one task each; every handler is cut at its     *)
(* stages (read body, compile, wire stdio, instantiate, resolve the entry, *)
(* guest writes, end of the call, response), so that all interleavings of  *)
(* the stages of different requests are explored.                          *)
(* The WASM library is modelled by what it returns to the handlers: each   *)
(* request body carries what compiling, linking, looking up and calling    *)
(* make of it.  Engine::new and add_to_linker, which fail on a bad         *)
(* configuration only and are given a constant one, always succeed.        *)
(* Spec serves the requests with a worker thread always at hand.           *)
(* SpecSched puts the same handlers on the worker threads of the tokio     *)
(* runtime and adds guests that never return, clients that close the       *)
(* connection, and SIGINT.                                                 *)
(***************************************************************************)
EXTENDS Integers, Sequences, FiniteSets, TLC

\* Number of requests a behaviour serves.
NReq == 2

Requests == 1..NReq

(***************************************************************************)
(* Program constants.                                                      *)
(***************************************************************************)
\* MemoryOutputPipe::new(1 * 1024 * 1024)
CAPACITY == 1048576
OK == 200
BAD_REQUEST == 400
NOT_FOUND == 404
WORKER_THREADS == 4

\* The most cores a host has.
MaxCores == 3

(***************************************************************************)
(* Text.  A response body, a console line and an error message are         *)
(* sequences of segments: the literals of the format strings of the code,  *)
(* and the values formatted into them.  All segments have the same fields. *)
(*   lit  : a literal of the source (s)                                    *)
(*   err  : the message of the error the library returned at stage s for   *)
(*          the input bytes b (passed through verbatim by the code)        *)
(*   trap : the message of a guest trap                                    *)
(*   num  : a number formatted with {} (n)                                 *)
(*   text : text (c), run-length encoded: <<[ch, count], ...>>             *)
(*   raw  : raw bytes written by a guest (c), run-length encoded           *)
(*   str  : the text of the bytes b, which are well-formed UTF-8           *)
(***************************************************************************)
Seg(t, s, n, b, c) == [t |-> t, s |-> s, n |-> n, b |-> b, c |-> c]
Lit(s) == Seg("lit", s, 0, <<>>, <<>>)
LibErr(stage, bytes) == Seg("err", stage, 0, bytes, <<>>)
TrapMsg == Seg("trap", "wasm trap", 0, <<>>, <<>>)
Num(n) == Seg("num", "", n, <<>>, <<>>)
Text(c) == Seg("text", "", 0, <<>>, c)
Raw(c) == Seg("raw", "", 0, <<>>, c)
\* The text of a byte string that passed str::from_utf8: the same bytes.
Str(bytes) == Seg("str", "", 0, bytes, <<>>)

USAGE_TEXT == Lit("HTTP Logger Server with WASM Execution ...")
RUNNER_USAGE == Lit("OK: POST /execute-wasm (body = WASI Core Module)")

Response(status, body) == [status |-> status, body |-> body]
NoResponse == Response(0, <<>>)

\* Result<String, E> of execute_wasm / handle_execute_wasm.
ResOk(text) == [set |-> TRUE, ok |-> TRUE, val |-> text]
ResErr(e) == [set |-> TRUE, ok |-> FALSE, val |-> e]
NoResult == [set |-> FALSE, ok |-> FALSE, val |-> <<>>]

(***************************************************************************)
(* std::str::from_utf8: whether a byte sequence is well-formed UTF-8.      *)
(* (Lead bytes and continuation counts; the overlong and surrogate ranges  *)
(* of three- and four-byte forms are not told apart, and the request       *)
(* bodies below hold none.)                                                *)
(***************************************************************************)
IsCont(b) == b >= 128 /\ b <= 191

Utf8Need(b) ==
    IF b < 128 THEN 0
    ELSE IF b >= 194 /\ b <= 223 THEN 1
    ELSE IF b >= 224 /\ b <= 239 THEN 2
    ELSE IF b >= 240 /\ b <= 244 THEN 3
    ELSE -1

RECURSIVE Utf8From(_, _, _)
Utf8From(bs, k, need) ==
    IF k > Len(bs) THEN need = 0
    ELSE IF need > 0 THEN IsCont(bs[k]) /\ Utf8From(bs, k + 1, need - 1)
    ELSE Utf8Need(bs[k]) >= 0 /\ Utf8From(bs, k + 1, Utf8Need(bs[k]))

from_utf8_ok(bs) == Utf8From(bs, 1, 0)

(***************************************************************************)
(* Byte buffers, run-length encoded: <<[byte, count], ...>>, adjacent runs *)
(* of the same byte merged, so that equal contents are equal values.       *)
(***************************************************************************)
RECURSIVE BufLen(_)
BufLen(buf) == IF buf = <<>> THEN 0 ELSE buf[1].count + BufLen(Tail(buf))

Extend(buf, byte, n) ==
    IF n = 0 THEN buf
    ELSE IF buf # <<>> /\ buf[Len(buf)].byte = byte
         THEN [buf EXCEPT ![Len(buf)].count = @ + n]
         ELSE buf \o <<[byte |-> byte, count |-> n]>>

\* String::from_utf8_lossy on a buffer whose bytes are ASCII or bytes that
\* are ill-formed wherever they stand (0xF5..0xFF): each of the latter is
\* replaced by U+FFFD.
RECURSIVE from_utf8_lossy(_)
from_utf8_lossy(buf) ==
    IF buf = <<>> THEN <<>>
    ELSE LET h == buf[1]
             ch == IF h.byte < 128 THEN h.byte ELSE 65533
             rest == from_utf8_lossy(Tail(buf))
         IN IF rest # <<>> /\ rest[1].ch = ch
            THEN <<[ch |-> ch, count |-> h.count + rest[1].count]>> \o Tail(rest)
            ELSE <<[ch |-> ch, count |-> h.count]>> \o rest

(***************************************************************************)
(* Request bodies.  A body is its bytes together with what the WASM        *)
(* library makes of them (mod): whether they compile, whether the imports  *)
(* of the module link, which of the exports _start and main it has         *)
(* ("none", "ok": the expected signature, "badsig": another signature),    *)
(* and what the guest does when each is called: a sequence of writes to    *)
(* fd 1 or 2, then a normal return ("ret"), a trap ("trap"), or a loop     *)
(* that makes no host call and never ends ("spin").                        *)
(***************************************************************************)
Wr(fd, byte, count) == [fd |-> fd, byte |-> byte, count |-> count]
Prog(ops, end) == [ops |-> ops, end |-> end]
NoProg == Prog(<<>>, "ret")

Mod(valid, links, start, sprog, main, mprog, ret) ==
    [valid |-> valid, links |-> links, start |-> start, sprog |-> sprog,
     main |-> main, mprog |-> mprog, ret |-> ret]
NotWasm == Mod(FALSE, FALSE, "none", NoProg, "none", NoProg, 0)

TextBody(bytes) == [bytes |-> bytes, mod |-> NotWasm]
WasmBody(k, mod) == [bytes |-> <<0, 97, 115, 109, k>>, mod |-> mod]

WriteA == Prog(<<Wr(1, 65, 1)>>, "ret")
WriteB7 == Prog(<<Wr(1, 66, 1)>>, "ret")
WriteATrap == Prog(<<Wr(1, 65, 1)>>, "trap")

Bodies ==
    { TextBody(<<72, 105>>),
      TextBody(<<195, 169>>),
      TextBody(<<195, 40>>),
      \* compiles, an import does not link
      WasmBody(1, Mod(TRUE, FALSE, "ok", WriteA, "none", NoProg, 0)),
      \* no entry at all
      WasmBody(2, Mod(TRUE, TRUE, "none", NoProg, "none", NoProg, 0)),
      \* _start writes "A"
      WasmBody(3, Mod(TRUE, TRUE, "ok", WriteA, "none", NoProg, 0)),
      \* _start writes "B" to stdout and "E" to stderr
      WasmBody(4, Mod(TRUE, TRUE, "ok",
                      Prog(<<Wr(1, 66, 1), Wr(2, 69, 1)>>, "ret"),
                      "none", NoProg, 0)),
      \* _start writes "A", then traps
      WasmBody(5, Mod(TRUE, TRUE, "ok", WriteATrap, "none", NoProg, 0)),
      \* both entries
      WasmBody(6, Mod(TRUE, TRUE, "ok", WriteA, "ok", WriteB7, 7)),
      \* both entries, _start traps
      WasmBody(7, Mod(TRUE, TRUE, "ok", WriteATrap, "ok", WriteB7, 7)),
      \* main only
      WasmBody(8, Mod(TRUE, TRUE, "none", NoProg, "ok", WriteB7, 7)),
      \* main only, main traps
      WasmBody(9, Mod(TRUE, TRUE, "none", NoProg, "ok",
                      Prog(<<Wr(1, 66, 1)>>, "trap"), 0)),
      \* _start with another signature, main as expected
      WasmBody(10, Mod(TRUE, TRUE, "badsig", WriteA, "ok", WriteB7, 7)),
      \* _start fills the capture capacity and writes one byte more
      WasmBody(11, Mod(TRUE, TRUE, "ok",
                       Prog(<<Wr(1, 65, CAPACITY), Wr(1, 65, 1)>>, "ret"),
                       "none", NoProg, 0)),
      \* _start writes two bytes that are not UTF-8
      WasmBody(12, Mod(TRUE, TRUE, "ok", Prog(<<Wr(1, 255, 2)>>, "ret"),
                       "none", NoProg, 0)) }

Methods == {"GET", "POST"}
Paths == {"/", "/log", "/execute-wasm", "/other"}

VARIABLES
    server,     \* the program this process runs: "legacy" or "runner"
    req,        \* req[i]: the request (method, path, body)
    pc,         \* pc[i]: where the handler of request i stands
    env,        \* env[i]: what the environment did to request i (ghost)
    stdio,      \* stdio[i]: what the guest's stdout/stderr are wired to
    pipes,      \* the MemoryOutputPipe buffers, by handle
    nextPipe,   \* the next handle MemoryOutputPipe::new gives out
    looked,     \* looked[i]: the exports get_typed_func was asked for
    invoked,    \* invoked[i]: the entries called
    ip,         \* ip[i]: the guest's next write
    hist,       \* hist[i]: the stages the execution went through (ghost)
    result,     \* result[i]: what execute_wasm/handle_execute_wasm returned
    resp,       \* resp[i]: the response sent
    hostOut,    \* the host process's stdout, line by line
    hostErr,    \* the host process's stderr, line by line
    workers,    \* the number of worker threads of the tokio runtime
    onCpu,      \* the requests whose task a worker thread is polling
    shutdown,   \* the process got SIGINT (Ctrl+C)
    gone,       \* the requests whose client has closed the connection
    cancelled   \* the requests whose guest was running at that time (ghost)

vars == <<server, req, pc, env, stdio, pipes, nextPipe, looked, invoked, ip,
          hist, result, resp, hostOut, hostErr>>
sched == <<workers, onCpu, shutdown, gone, cancelled>>
allvars == <<vars, sched>>

NoRequest == [method |-> "", path |-> "", body |-> TextBody(<<>>)]
NoEnv == [readOk |-> TRUE, ovf |-> "none"]
NoStdio == [kind |-> "none", out |-> 0, err |-> 0]

\* #[tokio::main(worker_threads = 4)] in the legacy server; the runner's
\* #[tokio::main(flavor = "multi_thread")] starts one worker per core of the
\* host, of which there are 1 to MaxCores.
Pool(srv) == IF srv = "legacy" THEN {WORKER_THREADS} ELSE 1..MaxCores

\* The requests, the console and the runtime when the server starts.
Started ==
    /\ server \in {"legacy", "runner"}
    /\ req = [i \in Requests |-> NoRequest]
    /\ pc = [i \in Requests |-> "idle"]
    /\ env = [i \in Requests |-> NoEnv]
    /\ stdio = [i \in Requests |-> NoStdio]
    /\ pipes = <<>>
    /\ nextPipe = 1
    /\ looked = [i \in Requests |-> <<>>]
    /\ invoked = [i \in Requests |-> <<>>]
    /\ ip = [i \in Requests |-> 1]
    /\ hist = [i \in Requests |-> <<>>]
    /\ result = [i \in Requests |-> NoResult]
    /\ resp = [i \in Requests |-> NoResponse]
    /\ hostOut = <<>>
    /\ hostErr = <<>>
    /\ onCpu = {}
    /\ shutdown = FALSE
    /\ gone = {}
    /\ cancelled = {}

\* The server on a host of MaxCores cores.
Init ==
    /\ Started
    /\ workers = CHOOSE n \in Pool(server) : \A k \in Pool(server) : k <= n

\* A line of the host's console, and the request whose handling wrote it.
Line(i, segs) == [by |-> i, line |-> segs]

\* A connection is accepted and its request parsed; requests are numbered
\* in the order they arrive.
Accept(i) ==
    /\ pc[i] = "idle"
    /\ IF i = 1 THEN TRUE ELSE pc[i - 1] # "idle"
    /\ \E m \in Methods, p \in Paths, b \in Bodies :
          req' = [req EXCEPT ![i] = [method |-> m, path |-> p, body |-> b]]
    /\ pc' = [pc EXCEPT ![i] = "route"]
    /\ UNCHANGED <<sched, server, env, stdio, pipes, nextPipe, looked,
                   invoked, ip, hist, result, resp, hostOut, hostErr>>

\* What the handler of request i leaves alone unless it says otherwise.
SetPc(i, to) == pc' = [pc EXCEPT ![i] = to]
Stage(i, name) == hist' = [hist EXCEPT ![i] = Append(@, name)]
Respond(i, r) == resp' = [resp EXCEPT ![i] = r] /\ SetPc(i, "done")
Return(i, r) == result' = [result EXCEPT ![i] = r] /\ SetPc(i, "respond")

\* The guest code of an entry, and the entry that is running.
EntryProg(mod, entry) == IF entry = "_start" THEN mod.sprog ELSE mod.mprog
Running(i) == invoked[i][Len(invoked[i])]

\* instance.get_typed_func::<(), ()>(.., "_start") and
\* instance.get_typed_func::<(), i32>(.., "main"): the export exists and
\* has the signature asked for.
get_typed_func(mod, name) ==
    IF name = "_start" THEN mod.start = "ok" ELSE mod.main = "ok"

(***************************************************************************)
(* The legacy server: src/src/main.rs.                                     *)
(***************************************************************************)
\* A route table whose execute arm matches on the method alone.
LegacyRoute_any_post(m, p) ==
    IF m = "POST" /\ p = "/log" THEN "log"
    ELSE IF m = "POST" THEN "exec"
    ELSE IF m = "GET" /\ p = "/" THEN "usage"
    ELSE "notfound"

\* match (req.method(), req.uri().path())
LegacyRoute(m, p) ==
    IF m = "POST" /\ p = "/log" THEN "log"
    ELSE IF m = "POST" /\ p = "/execute-wasm" THEN "exec"
    ELSE IF m = "GET" /\ p = "/" THEN "usage"
    ELSE "notfound"

handle_request(i) ==
    /\ server = "legacy"
    /\ pc[i] = "route"
    /\ LET to == LegacyRoute(req[i].method, req[i].path) IN
         CASE to = "log" -> SetPc(i, "readlog") /\ UNCHANGED resp
           [] to = "exec" -> SetPc(i, "read") /\ UNCHANGED resp
           [] to = "usage" -> Respond(i, Response(OK, <<USAGE_TEXT>>))
           [] OTHER -> Respond(i, Response(NOT_FOUND, <<Lit("Not Found")>>))
    /\ UNCHANGED <<sched, server, req, env, stdio, pipes, nextPipe, looked,
                   invoked, ip, hist, result, hostOut, hostErr>>

\* A log handler that prints its line before it validates the body.
LegacyLog_print_first(bytes) ==
    IF from_utf8_ok(bytes)
    THEN [resp |-> Response(OK, <<Lit("Message logged successfully")>>),
          out |-> <<Lit("[LOG] Received message: "), Str(bytes)>>,
          err |-> <<>>]
    ELSE [resp |-> Response(BAD_REQUEST, <<Lit("Invalid UTF-8 in request body")>>),
          out |-> <<Lit("[LOG] Received message: "), Raw(<<>>)>>,
          err |-> <<Lit("Error parsing UTF-8: "), LibErr("utf8", bytes)>>]

\* What POST /log does with a body that was read: the response, and the
\* line written to stdout (out) or stderr (err), if any.
LegacyLog(bytes) ==
    IF from_utf8_ok(bytes)
    THEN [resp |-> Response(OK, <<Lit("Message logged successfully")>>),
          out |-> <<Lit("[LOG] Received message: "), Str(bytes)>>,
          err |-> <<>>]
    ELSE [resp |-> Response(BAD_REQUEST, <<Lit("Invalid UTF-8 in request body")>>),
          out |-> <<>>,
          err |-> <<Lit("Error parsing UTF-8: "), LibErr("utf8", bytes)>>]

handle_request_log(i) ==
    /\ server = "legacy"
    /\ pc[i] = "readlog"
    /\ \E readOk \in BOOLEAN :
         /\ env' = [env EXCEPT ![i].readOk = readOk]
         /\ IF ~readOk
            THEN /\ hostErr' = Append(hostErr,
                        Line(i, <<Lit("Error reading request body: "),
                                  LibErr("body", <<>>)>>))
                 /\ Respond(i, Response(BAD_REQUEST,
                                        <<Lit("Failed to read request body")>>))
                 /\ UNCHANGED hostOut
            ELSE LET l == LegacyLog(req[i].body.bytes) IN
                 /\ hostOut' = IF l.out = <<>> THEN hostOut
                               ELSE Append(hostOut, Line(i, l.out))
                 /\ hostErr' = IF l.err = <<>> THEN hostErr
                               ELSE Append(hostErr, Line(i, l.err))
                 /\ Respond(i, l.resp)
    /\ UNCHANGED <<sched, server, req, stdio, pipes, nextPipe, looked,
                   invoked, ip, hist, result>>

\* hyper::body::to_bytes(req.into_body()).await on POST /execute-wasm
handle_request_read(i) ==
    /\ server = "legacy"
    /\ pc[i] = "read"
    /\ \E readOk \in BOOLEAN :
         /\ env' = [env EXCEPT ![i].readOk = readOk]
         /\ IF ~readOk
            THEN /\ hostErr' = Append(hostErr,
                        Line(i, <<Lit("Error reading WASM binary: "),
                                  LibErr("body", <<>>)>>))
                 /\ Respond(i, Response(BAD_REQUEST,
                                        <<Lit("Failed to read WASM binary")>>))
                 /\ UNCHANGED hostOut
            ELSE /\ hostOut' = Append(hostOut,
                        Line(i, <<Lit("[WASM] Received WASM binary ("),
                                  Num(Len(req[i].body.bytes)),
                                  Lit(" bytes)")>>))
                 /\ SetPc(i, "compile")
                 /\ UNCHANGED <<resp, hostErr>>
    /\ UNCHANGED <<sched, server, req, stdio, pipes, nextPipe, looked,
                   invoked, ip, hist, result>>

\* A compile step that accepts every payload.
Compile_lenient(body) == [ok |-> TRUE, err |-> <<>>]

\* Module::new(&engine, wasm_bytes)?
Compile(body) ==
    IF body.mod.valid THEN [ok |-> TRUE, err |-> <<>>]
    ELSE [ok |-> FALSE, err |-> <<LibErr("compile", body.bytes)>>]

execute_wasm_compile(i) ==
    /\ server = "legacy"
    /\ pc[i] = "compile"
    /\ LET c == Compile(req[i].body) IN
         IF c.ok
         THEN SetPc(i, "wire") /\ Stage(i, "Compiled") /\ UNCHANGED result
         ELSE Return(i, ResErr(c.err)) /\ Stage(i, "Failed(Compilation)")
    /\ UNCHANGED <<sched, server, req, env, stdio, pipes, nextPipe, looked,
                   invoked, ip, resp, hostOut, hostErr>>

\* WasiCtxBuilder::new().inherit_stdio().inherit_args().build()
LegacyStdio == [kind |-> "inherit", out |-> 0, err |-> 0]

execute_wasm_wire(i) ==
    /\ server = "legacy"
    /\ pc[i] = "wire"
    /\ stdio' = [stdio EXCEPT ![i] = LegacyStdio]
    /\ SetPc(i, "inst")
    /\ UNCHANGED <<sched, server, req, env, pipes, nextPipe, looked, invoked,
                   ip, hist, result, resp, hostOut, hostErr>>

\* An instantiation that goes on although an import does not link.
Instantiate_lenient(body) == [ok |-> TRUE, err |-> <<>>]

\* linker.instantiate(&mut store, &module)?
Instantiate(body) ==
    IF body.mod.links THEN [ok |-> TRUE, err |-> <<>>]
    ELSE [ok |-> FALSE, err |-> <<LibErr("link", body.bytes)>>]

execute_wasm_instantiate(i) ==
    /\ server = "legacy"
    /\ pc[i] = "inst"
    /\ LET c == Instantiate(req[i].body) IN
         IF c.ok
         THEN SetPc(i, "resolve") /\ Stage(i, "Instantiated")
              /\ UNCHANGED result
         ELSE Return(i, ResErr(c.err)) /\ Stage(i, "Failed(Linking)")
    /\ UNCHANGED <<sched, server, req, env, stdio, pipes, nextPipe, looked,
                   invoked, ip, resp, hostOut, hostErr>>

\* A resolver that tries main before _start.
LegacyResolve_main_first(mod) ==
    IF get_typed_func(mod, "main")
    THEN [looked |-> <<"main">>, entry |-> "main"]
    ELSE IF get_typed_func(mod, "_start")
         THEN [looked |-> <<"main", "_start">>, entry |-> "_start"]
         ELSE [looked |-> <<"main", "_start">>, entry |-> ""]

\* The two "if let Ok(..) = instance.get_typed_func" of execute_wasm: the
\* exports looked up, in order, and the entry chosen ("" when none).
LegacyResolve(mod) ==
    IF get_typed_func(mod, "_start")
    THEN [looked |-> <<"_start">>, entry |-> "_start"]
    ELSE IF get_typed_func(mod, "main")
         THEN [looked |-> <<"_start", "main">>, entry |-> "main"]
         ELSE [looked |-> <<"_start", "main">>, entry |-> ""]

NoEntryMsg ==
    Lit("No suitable entry function (_start or main) found in WASM module")

execute_wasm_resolve(i) ==
    /\ server = "legacy"
    /\ pc[i] = "resolve"
    /\ LET r == LegacyResolve(req[i].body.mod) IN
         /\ looked' = [looked EXCEPT ![i] = r.looked]
         /\ IF r.entry # ""
            THEN /\ invoked' = [invoked EXCEPT ![i] = Append(@, r.entry)]
                 /\ SetPc(i, "run")
                 /\ Stage(i, "Running")
                 /\ UNCHANGED result
            ELSE /\ Return(i, ResErr(<<NoEntryMsg>>))
                 /\ Stage(i, "Failed(EntryResolution)")
                 /\ UNCHANGED invoked
    /\ UNCHANGED <<sched, server, req, env, stdio, pipes, nextPipe, ip, resp,
                   hostOut, hostErr>>

\* A write of the guest to fd 1 or 2 under inherit_stdio(): the bytes go to
\* the host process's own stdout or stderr.
execute_wasm_guest_write(i) ==
    /\ server = "legacy"
    /\ pc[i] = "run"
    /\ LET prog == EntryProg(req[i].body.mod, Running(i)) IN
         /\ ip[i] <= Len(prog.ops)
         /\ LET op == prog.ops[ip[i]]
                l == Line(i, <<Raw(<<[byte |-> op.byte, count |-> op.count]>>)>>)
            IN /\ stdio[i].kind = "inherit"
               /\ hostOut' = IF op.fd = 1 THEN Append(hostOut, l) ELSE hostOut
               /\ hostErr' = IF op.fd = 2 THEN Append(hostErr, l) ELSE hostErr
    /\ ip' = [ip EXCEPT ![i] = @ + 1]
    /\ UNCHANGED <<sched, server, req, pc, env, stdio, pipes, nextPipe,
                   looked, invoked, hist, result, resp>>

\* The two matches with the trap of main handled as the trap of _start is.
LegacyCallEnd_trap_ok(entry, end, ret) ==
    IF end = "ret"
    THEN IF entry = "_start"
         THEN ResOk(<<Lit("WASM _start function executed successfully")>>)
         ELSE ResOk(<<Lit("WASM main function executed, returned: "), Num(ret)>>)
    ELSE ResOk(<<Lit("WASM executed but ended with trap: "), TrapMsg>>)

\* What execute_wasm returns when the call of the entry ends: the two
\* match start_func.call / main_func.call.
LegacyCallEnd(entry, end, ret) ==
    IF entry = "_start"
    THEN IF end = "ret"
         THEN ResOk(<<Lit("WASM _start function executed successfully")>>)
         ELSE ResOk(<<Lit("WASM executed but ended with trap: "), TrapMsg>>)
    ELSE IF end = "ret"
         THEN ResOk(<<Lit("WASM main function executed, returned: "), Num(ret)>>)
         ELSE ResErr(<<Lit("WASM main function trap: "), TrapMsg>>)

\* A call of _start whose trap is recorded and then falls through to main.
execute_wasm_call_end_fallthrough(i) ==
    /\ server = "legacy"
    /\ pc[i] = "run"
    /\ LET mod == req[i].body.mod
           prog == EntryProg(mod, Running(i))
       IN /\ ip[i] > Len(prog.ops)
          /\ Stage(i, IF prog.end = "ret" THEN "Completed" ELSE "Trapped")
          /\ IF Running(i) = "_start" /\ prog.end = "trap"
                /\ get_typed_func(mod, "main")
             THEN /\ invoked' = [invoked EXCEPT ![i] = Append(@, "main")]
                  /\ ip' = [ip EXCEPT ![i] = 1]
                  /\ UNCHANGED <<pc, result>>
             ELSE /\ Return(i, LegacyCallEnd(Running(i), prog.end, mod.ret))
                  /\ UNCHANGED <<invoked, ip>>
    /\ UNCHANGED <<sched, server, req, env, stdio, pipes, nextPipe, looked,
                   resp, hostOut, hostErr>>

execute_wasm_call_end(i) ==
    /\ server = "legacy"
    /\ pc[i] = "run"
    /\ LET mod == req[i].body.mod
           prog == EntryProg(mod, Running(i))
       IN /\ ip[i] > Len(prog.ops)
          /\ prog.end # "spin"
          /\ Return(i, LegacyCallEnd(Running(i), prog.end, mod.ret))
          /\ Stage(i, IF prog.end = "ret" THEN "Completed" ELSE "Trapped")
    /\ UNCHANGED <<sched, server, req, env, stdio, pipes, nextPipe, looked,
                   invoked, ip, resp, hostOut, hostErr>>

\* match execute_wasm(&body_bytes).await in handle_request
LegacyRespond(res) ==
    IF res.ok
    THEN [resp |-> Response(OK, <<Lit("WASM executed successfully\n\nResult: ")>>
                                \o res.val),
          out |-> <<Lit("[WASM] Execution successful")>>,
          err |-> <<>>]
    ELSE [resp |-> Response(BAD_REQUEST, <<Lit("WASM execution failed: ")>>
                                         \o res.val),
          out |-> <<>>,
          err |-> <<Lit("[WASM] Execution failed: ")>> \o res.val]

handle_request_respond(i) ==
    /\ server = "legacy"
    /\ pc[i] = "respond"
    /\ LET l == LegacyRespond(result[i]) IN
         /\ hostOut' = IF l.out = <<>> THEN hostOut
                       ELSE Append(hostOut, Line(i, l.out))
         /\ hostErr' = IF l.err = <<>> THEN hostErr
                       ELSE Append(hostErr, Line(i, l.err))
         /\ Respond(i, l.resp)
    /\ UNCHANGED <<sched, server, req, env, stdio, pipes, nextPipe, looked,
                   invoked, ip, hist, result>>

Legacy(i) ==
    \/ handle_request(i)
    \/ handle_request_log(i)
    \/ handle_request_read(i)
    \/ execute_wasm_compile(i)
    \/ execute_wasm_wire(i)
    \/ execute_wasm_instantiate(i)
    \/ execute_wasm_resolve(i)
    \/ execute_wasm_guest_write(i)
    \/ execute_wasm_call_end(i)
    \/ handle_request_respond(i)

(***************************************************************************)
(* The runner: src/wasm_runner/src/main.rs.                                *)
(***************************************************************************)
\* match (method, path.as_str())
RunnerRoute(m, p) ==
    IF m = "GET" /\ p = "/" THEN "usage"
    ELSE IF m = "POST" /\ p = "/execute-wasm" THEN "exec"
    ELSE "notfound"

ok_text(s) == Response(OK, s)
err_text(code, s) == Response(code, s)

router(i) ==
    /\ server = "runner"
    /\ pc[i] = "route"
    /\ LET to == RunnerRoute(req[i].method, req[i].path) IN
         CASE to = "usage" -> Respond(i, ok_text(<<RUNNER_USAGE>>))
           [] to = "exec" -> SetPc(i, "read") /\ UNCHANGED resp
           [] OTHER -> Respond(i, err_text(NOT_FOUND, <<Lit("not found")>>))
    /\ UNCHANGED <<sched, server, req, env, stdio, pipes, nextPipe, looked,
                   invoked, ip, hist, result, hostOut, hostErr>>

\* req.into_body().collect().await?
handle_execute_wasm_read(i) ==
    /\ server = "runner"
    /\ pc[i] = "read"
    /\ \E readOk \in BOOLEAN :
         /\ env' = [env EXCEPT ![i].readOk = readOk]
         /\ IF readOk
            THEN SetPc(i, "compile") /\ UNCHANGED result
            ELSE Return(i, ResErr(<<LibErr("body", <<>>)>>))
    /\ UNCHANGED <<sched, server, req, stdio, pipes, nextPipe, looked,
                   invoked, ip, hist, resp, hostOut, hostErr>>

\* A compile step on an engine kept across requests, which refuses every
\* payload once the execution of another request has failed.
handle_execute_wasm_compile_poisoned(i) ==
    /\ server = "runner"
    /\ pc[i] = "compile"
    /\ LET poisoned == \E j \in Requests \ {i} :
                           result[j].set /\ ~result[j].ok
           c == IF poisoned
                THEN [ok |-> FALSE, err |-> <<LibErr("compile", req[i].body.bytes)>>]
                ELSE Compile(req[i].body)
       IN IF c.ok
          THEN SetPc(i, "wire") /\ Stage(i, "Compiled") /\ UNCHANGED result
          ELSE Return(i, ResErr(c.err)) /\ Stage(i, "Failed(Compilation)")
    /\ UNCHANGED <<sched, server, req, env, stdio, pipes, nextPipe, looked,
                   invoked, ip, resp, hostOut, hostErr>>

\* Module::from_binary(&engine, &bytes)?
handle_execute_wasm_compile(i) ==
    /\ server = "runner"
    /\ pc[i] = "compile"
    /\ LET c == Compile(req[i].body) IN
         IF c.ok
         THEN SetPc(i, "wire") /\ Stage(i, "Compiled") /\ UNCHANGED result
         ELSE Return(i, ResErr(c.err)) /\ Stage(i, "Failed(Compilation)")
    /\ UNCHANGED <<sched, server, req, env, stdio, pipes, nextPipe, looked,
                   invoked, ip, resp, hostOut, hostErr>>

\* A pipe constructor that hands out the same two buffers to every request.
MemoryOutputPipe_shared(next) == ((next - 1) % 2) + 1

\* MemoryOutputPipe::new: the handle of a buffer of its own (next is the
\* first handle never given out).
MemoryOutputPipe_new(next) == next

\* stdout_pipe, stderr_pipe and their clones, which share the buffers, then
\* WasiCtxBuilder::new().stdout(stdout_pipe).stderr(stderr_pipe).build_p1()
RunnerStdio(next) ==
    [kind |-> "pipe",
     out |-> MemoryOutputPipe_new(next),
     err |-> MemoryOutputPipe_new(next + 1)]

handle_execute_wasm_wire(i) ==
    /\ server = "runner"
    /\ pc[i] = "wire"
    /\ stdio' = [stdio EXCEPT ![i] = RunnerStdio(nextPipe)]
    /\ pipes' = pipes \o << <<>>, <<>> >>
    /\ nextPipe' = nextPipe + 2
    /\ SetPc(i, "inst")
    /\ UNCHANGED <<sched, server, req, env, looked, invoked, ip, hist,
                   result, resp, hostOut, hostErr>>

\* linker.instantiate_async(&mut store, &module).await?
handle_execute_wasm_instantiate(i) ==
    /\ server = "runner"
    /\ pc[i] = "inst"
    /\ LET c == Instantiate(req[i].body) IN
         IF c.ok
         THEN SetPc(i, "resolve") /\ Stage(i, "Instantiated")
              /\ UNCHANGED result
         ELSE Return(i, ResErr(c.err)) /\ Stage(i, "Failed(Linking)")
    /\ UNCHANGED <<sched, server, req, env, stdio, pipes, nextPipe, looked,
                   invoked, ip, resp, hostOut, hostErr>>

\* instance.get_typed_func::<(), ()>(&mut store, "_start")?
RunnerResolve(mod) ==
    IF get_typed_func(mod, "_start")
    THEN [looked |-> <<"_start">>, entry |-> "_start"]
    ELSE [looked |-> <<"_start">>, entry |-> ""]

handle_execute_wasm_resolve(i) ==
    /\ server = "runner"
    /\ pc[i] = "resolve"
    /\ LET r == RunnerResolve(req[i].body.mod) IN
         /\ looked' = [looked EXCEPT ![i] = r.looked]
         /\ IF r.entry # ""
            THEN /\ invoked' = [invoked EXCEPT ![i] = Append(@, r.entry)]
                 /\ SetPc(i, "run")
                 /\ Stage(i, "Running")
                 /\ UNCHANGED result
            ELSE /\ Return(i, ResErr(<<LibErr("resolve", req[i].body.bytes)>>))
                 /\ Stage(i, "Failed(EntryResolution)")
                 /\ UNCHANGED invoked
    /\ UNCHANGED <<sched, server, req, env, stdio, pipes, nextPipe, ip, resp,
                   hostOut, hostErr>>

(***************************************************************************)
(* A write of n bytes to a MemoryOutputPipe of capacity CAPACITY.  The     *)
(* buffer never grows past the capacity.  A write that does not fit fails: *)
(* the library either refuses it whole and traps the guest (how = "trap"), *)
(* or takes the bytes that fit and returns an error code to the guest,     *)
(* which goes on (how = "errno").                                          *)
(***************************************************************************)
PipeWrite(buf, byte, n, how) ==
    LET room == CAPACITY - BufLen(buf) IN
    IF n <= room THEN [buf |-> Extend(buf, byte, n), st |-> "ok"]
    ELSE IF how = "trap" THEN [buf |-> buf, st |-> "trap"]
    ELSE [buf |-> Extend(buf, byte, room), st |-> "errno"]

PipeTrap == Seg("trap", "write beyond capacity of MemoryOutputPipe", 0, <<>>, <<>>)

\* The pipe a write of the guest to fd goes to.
PipeOf(st, fd) == IF fd = 1 THEN st.out ELSE st.err

handle_execute_wasm_guest_write(i) ==
    /\ server = "runner"
    /\ pc[i] = "run"
    /\ stdio[i].kind = "pipe"
    /\ LET prog == EntryProg(req[i].body.mod, Running(i)) IN
         /\ ip[i] <= Len(prog.ops)
         /\ LET op == prog.ops[ip[i]]
                h == PipeOf(stdio[i], op.fd)
                fits == op.count <= CAPACITY - BufLen(pipes[h])
            IN \E how \in (IF fits THEN {"none"} ELSE {"trap", "errno"}) :
                 LET w == PipeWrite(pipes[h], op.byte, op.count, how) IN
                 /\ pipes' = [pipes EXCEPT ![h] = w.buf]
                 /\ env' = [env EXCEPT ![i].ovf =
                                 IF w.st = "ok" THEN @ ELSE w.st]
                 /\ IF w.st = "trap"
                    THEN /\ Return(i, ResErr(<<PipeTrap>>))
                         /\ Stage(i, "Trapped")
                         /\ UNCHANGED ip
                    ELSE /\ ip' = [ip EXCEPT ![i] = @ + 1]
                         /\ UNCHANGED <<pc, result, hist>>
    /\ UNCHANGED <<sched, server, req, stdio, nextPipe, looked, invoked,
                   resp, hostOut, hostErr>>

\* After start.call_async(..).await?: the report made of the contents of
\* the two pipes.
Report(outBuf, errBuf) ==
    LET out == from_utf8_lossy(outBuf)
        err == from_utf8_lossy(errBuf)
    IN IF err = <<>> THEN <<Text(out)>>
       ELSE <<Lit("-- stdout --\n"), Text(out),
              Lit("\n\n-- stderr --\n"), Text(err)>>

\* What handle_execute_wasm returns when the call of _start ends.
RunnerCallEnd(end, outBuf, errBuf) ==
    IF end = "ret" THEN ResOk(Report(outBuf, errBuf))
    ELSE ResErr(<<TrapMsg>>)

handle_execute_wasm_call_end(i) ==
    /\ server = "runner"
    /\ pc[i] = "run"
    /\ LET prog == EntryProg(req[i].body.mod, Running(i)) IN
         /\ ip[i] > Len(prog.ops)
         /\ prog.end # "spin"
         /\ Return(i, RunnerCallEnd(prog.end, pipes[stdio[i].out],
                                    pipes[stdio[i].err]))
         /\ Stage(i, IF prog.end = "ret" THEN "Completed" ELSE "Trapped")
    /\ UNCHANGED <<sched, server, req, env, stdio, pipes, nextPipe, looked,
                   invoked, ip, resp, hostOut, hostErr>>

\* A router that answers 200 whatever handle_execute_wasm returned.
RunnerRespond_always_ok(res) == ok_text(res.val)

\* match handle_execute_wasm(req).await in router
RunnerRespond(res) ==
    IF res.ok THEN ok_text(res.val)
    ELSE err_text(BAD_REQUEST, <<Lit("WASM error: ")>> \o res.val)

router_respond(i) ==
    /\ server = "runner"
    /\ pc[i] = "respond"
    /\ Respond(i, RunnerRespond(result[i]))
    /\ UNCHANGED <<sched, server, req, env, stdio, pipes, nextPipe, looked,
                   invoked, ip, hist, result, hostOut, hostErr>>

Runner(i) ==
    \/ router(i)
    \/ handle_execute_wasm_read(i)
    \/ handle_execute_wasm_compile(i)
    \/ handle_execute_wasm_wire(i)
    \/ handle_execute_wasm_instantiate(i)
    \/ handle_execute_wasm_resolve(i)
    \/ handle_execute_wasm_guest_write(i)
    \/ handle_execute_wasm_call_end(i)
    \/ router_respond(i)

Next == \E i \in Requests : Accept(i) \/ Legacy(i) \/ Runner(i)

Spec == Init /\ [][Next]_allvars

(***************************************************************************)
(* The same handlers on the worker threads of the tokio runtime.  Each     *)
(* accepted connection is a task (tokio::spawn in the runner, hyper's      *)
(* executor in the legacy server).  A worker thread that polls a task      *)
(* keeps to it until the task awaits something that is not ready (the      *)
(* body of the request) or ends: execute_wasm is synchronous code, and the *)
(* runner configures neither fuel nor epoch interruption, so call_async    *)
(* never yields inside the guest.                                          *)
(***************************************************************************)
SpinBody ==
    WasmBody(13, Mod(TRUE, TRUE, "ok", Prog(<<Wr(1, 65, 1)>>, "spin"),
                     "none", NoProg, 0))

SchedBodies ==
    { TextBody(<<72, 105>>),
      WasmBody(3, Mod(TRUE, TRUE, "ok", WriteA, "none", NoProg, 0)),
      SpinBody }

InitSched == Started /\ workers \in Pool(server)

\* The task of request i exists and has not ended.
InFlight(i) == pc[i] \notin {"idle", "done", "dropped"}

\* The requests whose task holds a worker thread.
Busy == {i \in onCpu : InFlight(i)}

\* The guest of request i is in its endless loop.
Spinning(i) ==
    /\ pc[i] = "run"
    /\ LET prog == EntryProg(req[i].body.mod, Running(i)) IN
         ip[i] > Len(prog.ops) /\ prog.end = "spin"

\* A runtime with one thread for all tasks.
CanSchedule_single == Busy = {}

\* A worker thread of the pool is free.
CanSchedule == Cardinality(Busy) < workers

\* listener.accept() in the accept loop, which the select! of the runner's
\* main leaves on Ctrl+C.
AcceptSched(i) ==
    /\ ~shutdown
    /\ pc[i] = "idle"
    /\ IF i = 1 THEN TRUE ELSE pc[i - 1] # "idle"
    /\ \E m \in Methods, p \in Paths, b \in SchedBodies :
          req' = [req EXCEPT ![i] = [method |-> m, path |-> p, body |-> b]]
    /\ pc' = [pc EXCEPT ![i] = "route"]
    /\ UNCHANGED <<sched, server, env, stdio, pipes, nextPipe, looked,
                   invoked, ip, hist, result, resp, hostOut, hostErr>>

\* A free worker thread takes up the task of request i.
Schedule(i) ==
    /\ InFlight(i)
    /\ i \notin onCpu
    /\ ~shutdown
    /\ CanSchedule
    /\ onCpu' = onCpu \cup {i}
    /\ UNCHANGED <<vars, workers, shutdown, gone, cancelled>>

\* The worker thread that holds the task of request i runs its next step.
Poll(i) == i \in onCpu /\ (Legacy(i) \/ Runner(i))

\* The task awaits the body of the request, which has not arrived yet: the
\* worker thread leaves it.
Yield(i) ==
    /\ i \in onCpu
    /\ pc[i] \in {"read", "readlog"}
    /\ onCpu' = onCpu \ {i}
    /\ UNCHANGED <<vars, workers, shutdown, gone, cancelled>>

\* One more turn of a guest loop that makes no host call.
guest_spin(i) ==
    /\ i \in onCpu
    /\ Spinning(i)
    /\ UNCHANGED allvars

\* _ = tokio::signal::ctrl_c() => ..: main returns and the runtime shuts
\* down; it polls no task again and drops every task that is not being
\* polled.
ctrl_c ==
    /\ server = "runner"
    /\ ~shutdown
    /\ shutdown' = TRUE
    /\ cancelled' = cancelled \cup {i \in Requests : pc[i] = "run"}
    /\ UNCHANGED <<vars, workers, onCpu, gone>>

\* The legacy server installs no signal handler: SIGINT ends the process
\* and every task with it.
sigint ==
    /\ server = "legacy"
    /\ ~shutdown
    /\ shutdown' = TRUE
    /\ cancelled' = cancelled \cup {i \in Requests : pc[i] = "run"}
    /\ pc' = [i \in Requests |-> IF InFlight(i) THEN "dropped" ELSE pc[i]]
    /\ onCpu' = {}
    /\ UNCHANGED <<server, req, env, stdio, pipes, nextPipe, looked, invoked,
                   ip, hist, result, resp, hostOut, hostErr, workers, gone>>

\* The client of request i closes the connection.
disconnect(i) ==
    /\ InFlight(i)
    /\ i \notin gone
    /\ gone' = gone \cup {i}
    /\ cancelled' = cancelled \cup (IF pc[i] = "run" THEN {i} ELSE {})
    /\ UNCHANGED <<vars, workers, onCpu, shutdown>>

\* The future of a task that is not being polled is dropped: by hyper when
\* the connection is closed, by the runtime when it shuts down.
Drop(i) ==
    /\ InFlight(i)
    /\ i \notin onCpu
    /\ shutdown \/ i \in gone
    /\ pc' = [pc EXCEPT ![i] = "dropped"]
    /\ UNCHANGED <<sched, server, req, env, stdio, pipes, nextPipe, looked,
                   invoked, ip, hist, result, resp, hostOut, hostErr>>

NextSched ==
    \/ \E i \in Requests :
          \/ AcceptSched(i)
          \/ Schedule(i)
          \/ Poll(i)
          \/ Yield(i)
          \/ guest_spin(i)
          \/ disconnect(i)
          \/ Drop(i)
    \/ ctrl_c
    \/ sigint

SpecSched == InitSched /\ [][NextSched]_allvars

(***************************************************************************)
(* Vocabulary of the properties.                                           *)
(***************************************************************************)
Done(i) == pc[i] = "done"
IsExec(i) == req[i].method = "POST" /\ req[i].path = "/execute-wasm"
IsLog(i) == req[i].method = "POST" /\ req[i].path = "/log"
HasSeg(body, seg) == \E k \in 1..Len(body) : body[k] = seg
LinesBy(stream, i) == SelectSeq(stream, LAMBDA l : l.by = i)
Last(h) == h[Len(h)]
InHist(i, name) == \E k \in 1..Len(hist[i]) : hist[i][k] = name
\* The last stage the execution of request i reached ("" before any).
LastStage(i) == IF hist[i] = <<>> THEN "" ELSE Last(hist[i])

\* The fixed literal each program puts before the error of a failed execution.
ErrPrefix ==
    IF server = "legacy" THEN Lit("WASM execution failed: ")
    ELSE Lit("WASM error: ")

\* The body of request i was read and does not compile.
InvalidPayload(i) == IsExec(i) /\ ~req[i].body.mod.valid

\* Some step of the handler of request j, or its arrival, can be taken.
CanGoOn(j) ==
    IF pc[j] = "done" THEN TRUE
    ELSE IF pc[j] = "idle"
         THEN (IF j = 1 THEN TRUE ELSE pc[j - 1] # "idle") => ENABLED Accept(j)
         ELSE ENABLED (Legacy(j) \/ Runner(j))

(***************************************************************************)
(* C1.  A POST /execute-wasm request whose bytes do not compile is         *)
(* answered 400 (never 200) with the fixed prefix followed by the          *)
(* compiler's error for those bytes; two requests with the same bytes get  *)
(* the same response; nothing is wired, instantiated, looked up or invoked *)
(* for it; and once such a request has been answered, every other request  *)
(* can still arrive and take its next step.                                *)
(***************************************************************************)
C1_InvalidPayload ==
    /\ \A i \in Requests : InvalidPayload(i) =>
          /\ stdio[i] = NoStdio
          /\ looked[i] = <<>>
          /\ invoked[i] = <<>>
          /\ ~InHist(i, "Compiled")
          /\ ~InHist(i, "Instantiated")
          /\ ~InHist(i, "Running")
    /\ \A i \in Requests : InvalidPayload(i) /\ Done(i) =>
          /\ resp[i].status = BAD_REQUEST
          /\ resp[i].status # OK
          /\ env[i].readOk =>
                resp[i].body = <<ErrPrefix, LibErr("compile", req[i].body.bytes)>>
    /\ \A i, j \in Requests :
          /\ InvalidPayload(i) /\ Done(i) /\ env[i].readOk
          /\ InvalidPayload(j) /\ Done(j) /\ env[j].readOk
          /\ req[i].body.bytes = req[j].body.bytes
          => resp[i] = resp[j]
    /\ (\E i \in Requests : InvalidPayload(i) /\ Done(i)) =>
          \A j \in Requests : CanGoOn(j)

\* An invalid payload was answered 400, and a request that arrived after it
\* was then served with 200.
C1_Witness ==
    \E i, j \in Requests :
        /\ i < j
        /\ InvalidPayload(i) /\ Done(i) /\ env[i].readOk
        /\ resp[i].status = BAD_REQUEST
        /\ IsExec(j) /\ Done(j) /\ resp[j].status = OK

\* The bytes a guest program writes to fd when all its writes are taken.
RECURSIVE WrittenTo(_, _)
WrittenTo(ops, fd) ==
    IF ops = <<>> THEN <<>>
    ELSE LET rest == WrittenTo(Tail(ops), fd)
             h == ops[1]
         IN IF h.fd # fd THEN rest
            ELSE IF rest # <<>> /\ rest[1].byte = h.byte
                 THEN <<[byte |-> h.byte, count |-> h.count + rest[1].count]>>
                      \o Tail(rest)
                 ELSE <<[byte |-> h.byte, count |-> h.count]>> \o rest

\* The guest code that ran for request i (its entry was invoked).
RanProg(i) == EntryProg(req[i].body.mod, Running(i))

\* Request i is answered and its guest ended in a trap of its own.
GuestTrapped(i) ==
    /\ IsExec(i) /\ Done(i)
    /\ invoked[i] # <<>>
    /\ LastStage(i) = "Trapped"
    /\ env[i].ovf # "trap"

(***************************************************************************)
(* C2.  An execution whose entry traps is answered 200, the body holds the *)
(* trap's message, and the body holds the bytes the guest wrote to stdout  *)
(* before the trap.                                                        *)
(***************************************************************************)
C2_TrapReported ==
    \A i \in Requests : GuestTrapped(i) =>
        /\ resp[i].status = OK
        /\ HasSeg(resp[i].body, TrapMsg)
        /\ \/ HasSeg(resp[i].body,
                     Text(from_utf8_lossy(WrittenTo(RanProg(i).ops, 1))))
           \/ HasSeg(resp[i].body, Raw(WrittenTo(RanProg(i).ops, 1)))

(***************************************************************************)
(* C4.  The stdout and stderr of a guest are never the host process's own  *)
(* stdio; once wired they are two pipes of this request, which no other    *)
(* request holds.                                                          *)
(***************************************************************************)
C4_FreshCapture ==
    \A i \in Requests :
        /\ stdio[i].kind # "inherit"
        /\ stdio[i].kind = "pipe" =>
              /\ stdio[i].out # stdio[i].err
              /\ \A j \in Requests \ {i} :
                    stdio[j].kind = "pipe" =>
                        {stdio[i].out, stdio[i].err}
                            \cap {stdio[j].out, stdio[j].err} = {}

\* Request i is answered and its guest wrote more than CAPACITY bytes to
\* stdout or to stderr.
Overflowed(i) ==
    /\ IsExec(i) /\ Done(i)
    /\ invoked[i] # <<>>
    /\ \E fd \in {1, 2} : BufLen(WrittenTo(RanProg(i).ops, fd)) > CAPACITY

\* The response carries a mark that output was cut.
FlaggedTruncated(r) == \E k \in 1..Len(r.body) : r.body[k].t = "truncated"

(***************************************************************************)
(* C5.  No capture buffer ever holds more than CAPACITY bytes; a guest     *)
(* that writes more gets no error for it, and the response to its request  *)
(* is flagged as truncated.                                                *)
(***************************************************************************)
C5_Truncation ==
    /\ \A h \in DOMAIN pipes : BufLen(pipes[h]) <= CAPACITY
    /\ \A i \in Requests : Overflowed(i) =>
          /\ env[i].ovf = "none"
          /\ FlaggedTruncated(resp[i])

(***************************************************************************)
(* The response a request gets when it is the only request served: the     *)
(* stages of its handler taken one after the other on buffers of its own.  *)
(* e is what the environment does to it (whether the body can be read, and *)
(* how the library fails a write that does not fit).                       *)
(***************************************************************************)
RECURSIVE GuestAlone(_, _, _, _, _)
GuestAlone(ops, k, out, err, how) ==
    IF k > Len(ops) THEN [st |-> "end", out |-> out, err |-> err]
    ELSE LET op == ops[k]
             w == PipeWrite(IF op.fd = 1 THEN out ELSE err,
                            op.byte, op.count, how)
         IN IF w.st = "trap" THEN [st |-> "trap", out |-> out, err |-> err]
            ELSE GuestAlone(ops, k + 1,
                            IF op.fd = 1 THEN w.buf ELSE out,
                            IF op.fd = 2 THEN w.buf ELSE err, how)

LegacyExecuteAlone(body) ==
    IF ~body.mod.valid THEN ResErr(<<LibErr("compile", body.bytes)>>)
    ELSE IF ~body.mod.links THEN ResErr(<<LibErr("link", body.bytes)>>)
    ELSE LET r == LegacyResolve(body.mod) IN
         IF r.entry = "" THEN ResErr(<<NoEntryMsg>>)
         ELSE LegacyCallEnd(r.entry, EntryProg(body.mod, r.entry).end,
                            body.mod.ret)

RunnerExecuteAlone(body, e) ==
    IF ~e.readOk THEN ResErr(<<LibErr("body", <<>>)>>)
    ELSE IF ~body.mod.valid THEN ResErr(<<LibErr("compile", body.bytes)>>)
    ELSE IF ~body.mod.links THEN ResErr(<<LibErr("link", body.bytes)>>)
    ELSE LET r == RunnerResolve(body.mod) IN
         IF r.entry = "" THEN ResErr(<<LibErr("resolve", body.bytes)>>)
         ELSE LET prog == EntryProg(body.mod, r.entry)
                  g == GuestAlone(prog.ops, 1, <<>>, <<>>, e.ovf)
              IN IF g.st = "trap" THEN ResErr(<<PipeTrap>>)
                 ELSE RunnerCallEnd(prog.end, g.out, g.err)

ExecAlone(srv, body, e) ==
    IF srv = "legacy"
    THEN IF ~e.readOk
         THEN Response(BAD_REQUEST, <<Lit("Failed to read WASM binary")>>)
         ELSE LegacyRespond(LegacyExecuteAlone(body)).resp
    ELSE RunnerRespond(RunnerExecuteAlone(body, e))

\* What the guest of request i has written to fd so far, on a pipe of its own.
OwnOutput(i, fd) ==
    LET g == GuestAlone(SubSeq(RanProg(i).ops, 1, ip[i] - 1), 1, <<>>, <<>>,
                        env[i].ovf)
    IN IF fd = 1 THEN g.out ELSE g.err

(***************************************************************************)
(* C3.  Whatever the interleaving of the steps of the requests, the        *)
(* response to every /execute-wasm request is the response it gets when    *)
(* served alone, and each capture pipe of a request holds exactly the      *)
(* bytes its own guest has written so far: no byte of another guest.       *)
(***************************************************************************)
C3_Isolation ==
    \A i \in Requests : IsExec(i) =>
        /\ Done(i) => resp[i] = ExecAlone(server, req[i].body, env[i])
        /\ stdio[i].kind = "pipe" /\ invoked[i] # <<>> =>
              /\ pipes[stdio[i].out] = OwnOutput(i, 1)
              /\ pipes[stdio[i].err] = OwnOutput(i, 2)
        /\ stdio[i].kind = "pipe" /\ invoked[i] = <<>> =>
              /\ pipes[stdio[i].out] = <<>>
              /\ pipes[stdio[i].err] = <<>>

\* Two executions with different payloads overlapped: request 2 wired its
\* pipes first and is still running after a write, while request 1, wired
\* later, has already been answered with its own output.
C3_Witness ==
    /\ IsExec(1) /\ IsExec(2)
    /\ req[1].body # req[2].body
    /\ stdio[1].kind = "pipe" /\ stdio[2].kind = "pipe"
    /\ stdio[2].out < stdio[1].out
    /\ pc[2] = "run" /\ ip[2] > 1
    /\ Done(1) /\ resp[1].status = OK
    /\ resp[1].body = <<Text(from_utf8_lossy(WrittenTo(RanProg(1).ops, 1)))>>
    /\ pipes[stdio[1].out] # <<>>
    /\ pipes[stdio[2].out] # <<>>
    /\ pipes[stdio[1].out] # pipes[stdio[2].out]

\* The payload of request i exports both entries with the expected signatures.
BothEntries(i) ==
    IsExec(i) /\ req[i].body.mod.start = "ok" /\ req[i].body.mod.main = "ok"

(***************************************************************************)
(* C6.  For a payload that exports both _start and main with the expected  *)
(* signatures, main is never looked up and never invoked: once the entry   *)
(* is resolved, _start is the only export looked up and the only entry     *)
(* invoked, whether it returns or traps.                                   *)
(***************************************************************************)
C6_StartFirst ==
    \A i \in Requests : BothEntries(i) =>
        /\ \A k \in 1..Len(looked[i]) : looked[i][k] # "main"
        /\ \A k \in 1..Len(invoked[i]) : invoked[i][k] # "main"
        /\ InHist(i, "Running") =>
              looked[i] = <<"_start">> /\ invoked[i] = <<"_start">>

\* A payload with both entries was answered after its _start trapped, and
\* another after its _start returned.
C6_Witness ==
    \E i, j \in Requests :
        /\ BothEntries(i) /\ Done(i) /\ LastStage(i) = "Trapped"
        /\ invoked[i] = <<"_start">>
        /\ BothEntries(j) /\ Done(j) /\ LastStage(j) = "Completed"
        /\ invoked[j] = <<"_start">>

\* The payload of request i was read, compiles, links, and exports main with
\* the expected signature and no _start.
MainOnly(i) ==
    /\ IsExec(i) /\ env[i].readOk
    /\ req[i].body.mod.valid /\ req[i].body.mod.links
    /\ req[i].body.mod.start = "none" /\ req[i].body.mod.main = "ok"

(***************************************************************************)
(* C7.  A payload that exports only main is executed via main, and the     *)
(* integer main returns is in the response.                                *)
(***************************************************************************)
C7_MainOnly ==
    \A i \in Requests : MainOnly(i) /\ Done(i) =>
        /\ invoked[i] = <<"main">>
        /\ req[i].body.mod.mprog.end = "ret" =>
              /\ resp[i].status = OK
              /\ HasSeg(resp[i].body, Num(req[i].body.mod.ret))

Undefined(i) ==
    /\ req[i].method # ""
    /\ ~(req[i].method = "GET" /\ req[i].path = "/")
    /\ ~(req[i].method = "POST" /\ req[i].path = "/log")
    /\ ~(req[i].method = "POST" /\ req[i].path = "/execute-wasm")

\* Nothing was done with the body of request i.
Untouched(i) ==
    /\ hist[i] = <<>>
    /\ stdio[i] = NoStdio
    /\ looked[i] = <<>>
    /\ invoked[i] = <<>>
    /\ ip[i] = 1
    /\ ~result[i].set
    /\ LinesBy(hostOut, i) = <<>>
    /\ LinesBy(hostErr, i) = <<>>

(***************************************************************************)
(* C9.  A request whose method and path are none of GET /, POST /log and   *)
(* POST /execute-wasm is answered 404 in one step, whatever its body, and  *)
(* its body is never read, compiled, executed or logged.                   *)
(***************************************************************************)
C9_NotFound ==
    \A i \in Requests : Undefined(i) =>
        /\ pc[i] \in {"route", "done"}
        /\ Untouched(i)
        /\ Done(i) => resp[i].status = NOT_FOUND

\* A POST to an undefined path, carrying a payload that would compile and
\* run, was answered 404.
C9_Witness ==
    \E i \in Requests :
        /\ Undefined(i) /\ Done(i)
        /\ req[i].method = "POST"
        /\ req[i].body.mod.valid /\ req[i].body.mod.start = "ok"
        /\ resp[i].status = NOT_FOUND

EarlyFailures ==
    {"Failed(Compilation)", "Failed(Linking)", "Failed(EntryResolution)"}

\* The error of the stage at which request i stopped.
StageError(i) ==
    CASE LastStage(i) = "Failed(Compilation)" ->
            LibErr("compile", req[i].body.bytes)
      [] LastStage(i) = "Failed(Linking)" -> LibErr("link", req[i].body.bytes)
      [] OTHER -> IF server = "legacy" THEN NoEntryMsg
                  ELSE LibErr("resolve", req[i].body.bytes)

\* The stage a literal of the two programs names, if any: the only literal
\* that speaks of a stage is the legacy server's "No suitable entry ...".
LitStage(s) == IF s = NoEntryMsg.s THEN "Failed(EntryResolution)" ELSE ""

StagePaths ==
    { <<"Failed(Compilation)">>,
      <<"Compiled", "Failed(Linking)">>,
      <<"Compiled", "Instantiated", "Failed(EntryResolution)">>,
      <<"Compiled", "Instantiated", "Running", "Completed">>,
      <<"Compiled", "Instantiated", "Running", "Trapped">> }
IsPrefix(h, p) == Len(h) <= Len(p) /\ SubSeq(p, 1, Len(h)) = h

\* Guest code of request i has run: a write was taken, or a line of raw
\* guest bytes stands on the host's console, or a pipe of i holds bytes.
GuestRan(i) ==
    \/ ip[i] > 1
    \/ \E k \in 1..Len(hostOut) :
          hostOut[k].by = i /\ hostOut[k].line[1].t = "raw"
    \/ \E k \in 1..Len(hostErr) :
          hostErr[k].by = i /\ hostErr[k].line[1].t = "raw"
    \/ /\ stdio[i].kind = "pipe"
       /\ pipes[stdio[i].out] # <<>> \/ pipes[stdio[i].err] # <<>>

Terminal == {"Completed", "Trapped"} \cup EarlyFailures
Outcomes(i) == SelectSeq(hist[i], LAMBDA st : st \in Terminal)

\* Request i has its outcome, and this step changes nothing of its
\* execution: no stage, no lookup, no call, no guest write, no other result.
NoStepAfterOutcome(i) ==
    Len(Outcomes(i)) = 1 =>
        /\ hist'[i] = hist[i]
        /\ result'[i] = result[i]
        /\ stdio'[i] = stdio[i]
        /\ looked'[i] = looked[i]
        /\ invoked'[i] = invoked[i]
        /\ ip'[i] = ip[i]
        /\ stdio[i].kind = "pipe" =>
              /\ pipes'[stdio[i].out] = pipes[stdio[i].out]
              /\ pipes'[stdio[i].err] = pipes[stdio[i].err]

(***************************************************************************)
(* C12.  An execution never has two outcomes; a request to /execute-wasm   *)
(* whose body was read and which was answered has exactly one, which is    *)
(* Completed, Trapped or a Failed state, and it is the last stage          *)
(* recorded; the outcome is there exactly when the execution function has  *)
(* returned its result; and from then on no step changes the outcome, the  *)
(* result, or anything of the execution.                                   *)
(***************************************************************************)
C12_OneOutcome ==
    /\ [](\A i \in Requests :
            /\ Len(Outcomes(i)) <= 1
            /\ Len(Outcomes(i)) = 1 =>
                  /\ LastStage(i) \in Terminal
                  /\ result[i].set
                  /\ pc[i] \in {"respond", "done"}
            /\ result[i].set /\ env[i].readOk => Len(Outcomes(i)) = 1
            /\ IsExec(i) /\ Done(i) /\ env[i].readOk => Len(Outcomes(i)) = 1)
    /\ [][\A i \in Requests : NoStepAfterOutcome(i)]_vars

\* Both entries' payload whose _start trapped was answered with the one
\* outcome Trapped while another execution, already Completed, stood by.
C12_Witness ==
    \E i, j \in Requests :
        /\ BothEntries(i) /\ Done(i)
        /\ Outcomes(i) = <<"Trapped">>
        /\ invoked[i] = <<"_start">>
        /\ Outcomes(j) = <<"Completed">> /\ Done(j)

(***************************************************************************)
(* C13.  An execution whose guest was Running when its client left or the  *)
(* process was told to stop can be taken out of Running, also while the    *)
(* guest spins; and once such an execution has ended, its outcome is       *)
(* Failed(Cancellation).                                                   *)
(***************************************************************************)
C13_Cancellation ==
    \A i \in cancelled :
        /\ pc[i] = "run" => ENABLED (Poll(i) \/ Drop(i))
        /\ pc[i] \in {"respond", "done", "dropped"} =>
              LastStage(i) = "Failed(Cancellation)"

(***************************************************************************)
(* C14.  While the process has not been told to stop and fewer requests    *)
(* are in flight than the runtime has worker threads, every request can    *)
(* take its next step, whatever the other requests do, be it a guest that  *)
(* never returns: a request that has arrived can be accepted, an accepted  *)
(* one that no worker thread holds can be taken up by one, and one that a  *)
(* worker thread holds can run its next step up to its response.           *)
(***************************************************************************)
C14_NoBlocking ==
    ~shutdown /\ Cardinality({k \in Requests : InFlight(k)}) < workers =>
        \A j \in Requests :
            /\ pc[j] = "idle" /\ (IF j = 1 THEN TRUE ELSE pc[j - 1] # "idle")
                  => ENABLED AcceptSched(j)
            /\ InFlight(j) /\ j \notin onCpu => ENABLED Schedule(j)
            /\ InFlight(j) /\ j \in onCpu /\ ~Spinning(j) => ENABLED Poll(j)

\* The guest of request 1 spins on its worker thread, and request 2, which
\* arrived after it, has run its own guest and got its response.
C14_Witness ==
    /\ ~shutdown /\ gone = {}
    /\ Spinning(1) /\ 1 \in onCpu
    /\ Cardinality({k \in Requests : InFlight(k)}) < workers
    /\ IsExec(2) /\ Done(2) /\ resp[2].status = OK
    /\ LastStage(2) = "Completed"

\* The response a request gets when it is the only request the server ever
\* serves: a function of its method, path and body and of what the
\* environment does to it (e).
ServeAlone(srv, r, e) ==
    IF srv = "legacy"
    THEN LET to == LegacyRoute(r.method, r.path) IN
         CASE to = "usage" -> Response(OK, <<USAGE_TEXT>>)
           [] to = "log" ->
                IF ~e.readOk
                THEN Response(BAD_REQUEST, <<Lit("Failed to read request body")>>)
                ELSE LegacyLog(r.body.bytes).resp
           [] to = "exec" -> ExecAlone(srv, r.body, e)
           [] OTHER -> Response(NOT_FOUND, <<Lit("Not Found")>>)
    ELSE LET to == RunnerRoute(r.method, r.path) IN
         CASE to = "usage" -> ok_text(<<RUNNER_USAGE>>)
           [] to = "exec" -> ExecAlone(srv, r.body, e)
           [] OTHER -> err_text(NOT_FOUND, <<Lit("not found")>>)

\* This step is a step of the handler of request i.
StepOf(i) == pc'[i] # pc[i] \/ ip'[i] # ip[i]

\* This step leaves everything of request j as it is.
Keeps(j) ==
    /\ req'[j] = req[j] /\ pc'[j] = pc[j] /\ env'[j] = env[j]
    /\ stdio'[j] = stdio[j] /\ looked'[j] = looked[j]
    /\ invoked'[j] = invoked[j] /\ ip'[j] = ip[j] /\ hist'[j] = hist[j]
    /\ result'[j] = result[j] /\ resp'[j] = resp[j]
    /\ stdio[j].kind = "pipe" =>
          /\ pipes'[stdio[j].out] = pipes[stdio[j].out]
          /\ pipes'[stdio[j].err] = pipes[stdio[j].err]
    /\ LinesBy(hostOut', j) = LinesBy(hostOut, j)
    /\ LinesBy(hostErr', j) = LinesBy(hostErr, j)

(***************************************************************************)
(* C15.  Whatever requests were served before or are served at the same    *)
(* time, and however they ended, the response to a request of any route is *)
(* the response it gets when it is the only request ever served; and a     *)
(* step of one request's handler changes nothing that belongs to another   *)
(* request.                                                                *)
(***************************************************************************)
C15_ErrorsLocal ==
    /\ [](\A i \in Requests :
            Done(i) => resp[i] = ServeAlone(server, req[i], env[i]))
    /\ [][\A i, j \in Requests : i # j /\ StepOf(i) => Keeps(j)]_vars

\* Request 1 failed at linking and was answered 400; request 2, which
\* arrived after it, ran its guest to the end and was answered 200.
C15_Witness ==
    /\ IsExec(1) /\ Done(1) /\ LastStage(1) = "Failed(Linking)"
    /\ resp[1].status = BAD_REQUEST
    /\ IsExec(2) /\ Done(2) /\ LastStage(2) = "Completed"
    /\ resp[2].status = OK
    /\ resp[2] = ServeAlone(server, req[2], env[2])

\* The payload of request i was read, compiles and links; its _start export
\* has another signature than (no arguments, no result) and its main export
\* has the signature (no arguments, integer result).
MainBehindBadStart(i) ==
    /\ IsExec(i) /\ env[i].readOk
    /\ req[i].body.mod.valid /\ req[i].body.mod.links
    /\ req[i].body.mod.start = "badsig" /\ req[i].body.mod.main = "ok"

\* The payload of request i was read, compiles and links, and exports
\* neither a _start nor a main with the expected signature.
NoTypedEntry(i) ==
    /\ IsExec(i) /\ env[i].readOk
    /\ req[i].body.mod.valid /\ req[i].body.mod.links
    /\ req[i].body.mod.start # "ok" /\ req[i].body.mod.main # "ok"

(***************************************************************************)
(* C16.  A payload whose _start has another signature and whose main has   *)
(* the expected one is executed via main; a payload with no entry of the   *)
(* expected name and signature is answered 400 after failing at entry      *)
(* resolution, and no entry of it is invoked.                              *)
(***************************************************************************)
C16_NameAndSignature ==
    \A i \in Requests :
        /\ MainBehindBadStart(i) /\ Done(i) =>
              /\ invoked[i] = <<"main">>
              /\ LastStage(i) \in {"Completed", "Trapped"}
        /\ NoTypedEntry(i) =>
              /\ invoked[i] = <<>>
              /\ Done(i) =>
                    /\ LastStage(i) = "Failed(EntryResolution)"
                    /\ resp[i].status = BAD_REQUEST

\* The delimiter line that opens the stderr section of a report.
StderrDelimiter == Lit("\n\n-- stderr --\n")
StdoutDelimiter == Lit("-- stdout --\n")

(***************************************************************************)
(* C17.  The report of a Completed execution holds the lossily decoded     *)
(* bytes its guest wrote to stdout; it holds the stderr delimiter exactly  *)
(* when the guest wrote to stderr; and when the guest wrote nothing to     *)
(* stderr the report is the decoded stdout and nothing else.               *)
(***************************************************************************)
C17_Report ==
    \A i \in Requests : IsExec(i) /\ Done(i) /\ LastStage(i) = "Completed" =>
        LET out == from_utf8_lossy(OwnOutput(i, 1))
            err == from_utf8_lossy(OwnOutput(i, 2))
        IN /\ HasSeg(resp[i].body, Text(out))
           /\ HasSeg(resp[i].body, StderrDelimiter) <=> err # <<>>
           /\ err # <<>> => HasSeg(resp[i].body, Text(err))
           /\ err = <<>> =>
                 /\ resp[i].body = <<Text(out)>>
                 /\ ~HasSeg(resp[i].body, StdoutDelimiter)

\* Request i was answered by the legacy server after its guest trapped
\* while entry ran.
LegacyTrapIn(i, entry) ==
    /\ server = "legacy"
    /\ IsExec(i) /\ Done(i)
    /\ LastStage(i) = "Trapped"
    /\ Running(i) = entry

(***************************************************************************)
(* C18.  In the legacy server an execution whose guest trapped while       *)
(* _start ran is answered 200 with "WASM executed but ended with trap: "   *)
(* and the trap's message; one whose guest trapped while main ran is       *)
(* answered 400 with "WASM main function trap: " and the trap's message;   *)
(* every trapped execution ran one of the two, and neither response holds  *)
(* a byte the guest wrote.                                                 *)
(***************************************************************************)
C18_LegacyTrapStatus ==
    \A i \in Requests :
        /\ LegacyTrapIn(i, "_start") =>
              /\ resp[i].status = OK
              /\ resp[i].body = <<Lit("WASM executed successfully\n\nResult: "),
                                  Lit("WASM executed but ended with trap: "),
                                  TrapMsg>>
        /\ LegacyTrapIn(i, "main") =>
              /\ resp[i].status = BAD_REQUEST
              /\ resp[i].body = <<Lit("WASM execution failed: "),
                                  Lit("WASM main function trap: "),
                                  TrapMsg>>
        /\ server = "legacy" /\ IsExec(i) /\ Done(i) /\ LastStage(i) = "Trapped" =>
              /\ invoked[i] \in {<<"_start">>, <<"main">>}
              /\ \A k \in 1..Len(resp[i].body) :
                    resp[i].body[k].t \notin {"text", "raw", "str"}

\* The legacy server answered one guest that wrote and then trapped in
\* _start, and one that wrote and then trapped in main.
C18_Witness ==
    \E i, j \in Requests :
        /\ LegacyTrapIn(i, "_start") /\ ip[i] > 1 /\ resp[i].status = OK
        /\ LegacyTrapIn(j, "main") /\ ip[j] > 1
        /\ resp[j].status = BAD_REQUEST

\* The static text GET / is answered with.
StaticText == IF server = "legacy" THEN <<USAGE_TEXT>> ELSE <<RUNNER_USAGE>>

(***************************************************************************)
(* C19.  The handler of every request goes on until it returns: as long as *)
(* a worker thread holds its task, a step of it that leads on is enabled.  *)
(* It sets the response when it returns and not before; the status is 200, *)
(* 400 or 404; a status 400 answers a POST /log or a POST /execute-wasm;   *)
(* and GET / is answered 200 with the static text, with nothing read,      *)
(* compiled or run for it.                                                 *)
(***************************************************************************)
C19_Total ==
    \A i \in Requests :
        /\ InFlight(i) /\ i \in onCpu => ENABLED Poll(i)
        /\ ~Done(i) => resp[i] = NoResponse
        /\ Done(i) => resp[i].status \in {OK, BAD_REQUEST, NOT_FOUND}
        /\ Done(i) /\ resp[i].status = BAD_REQUEST => IsLog(i) \/ IsExec(i)
        /\ req[i].method = "GET" /\ req[i].path = "/" =>
              /\ Untouched(i)
              /\ Done(i) => resp[i] = Response(OK, StaticText)

====
